---- MODULE Spec2Model ----
(***************************************************************************)
(* Model of the VRAM-aware parameter optimizer (backend/utils/vram_utils)  *)
(* and of the model manager's pipeline cache (backend/services/            *)
(* model_manager, backend/pipelines/base_pipeline).                        *)
(*                                                                         *)
(* Units.  The source computes in floating-point GB.  The model keeps the  *)
(* same quantities as exact integers:                                      *)
(*   - an estimate is a number of hundredths of a GB (the source rounds    *)
(*     every estimate to two decimals, vram_utils.py:160);                 *)
(*   - free device memory is a number of 1/64 GB (16 MiB blocks), so that  *)
(*     free / 1024**3 is exact in binary floating point and every          *)
(*     comparison "estimated > available" is decided exactly:              *)
(*        E/100 > A/64   <=>   64 * E > 100 * A.                           *)
(* On the input sets below the integer operators return what the Python    *)
(* float code returns (round half to even in round(total, 2); int() of the *)
(* product in the frame-count step truncates the exact quotient).          *)
(***************************************************************************)
EXTENDS Integers, Sequences, FiniteSets, TLC

VARIABLES
    free,               \* torch.cuda.mem_get_info()[0], in 1/64 GB
    optPc,              \* "idle" before the optimize_params call, "done" after
    params,             \* the params dict handed to optimize_params
    outcome,            \* what optimize_params returned (and its locals)
    enable_caching,     \* ModelManager.enable_caching
    pipeline_cache,     \* ModelManager.pipeline_cache: model name -> pipeline id
    current_pipeline,   \* ModelManager.current_pipeline: pipeline id or None
    current_model_name, \* ModelManager.current_model_name: name or None
    pipes,              \* heap of pipeline objects: id -> [name, pipe, is_loaded]
    history,            \* the calls made on the manager so far, oldest first
    cuda_available,     \* torch.cuda.is_available()
    total_vram,         \* VRAMMonitor.total_vram, in 1/64 GB
    allocated,          \* torch.cuda.memory_allocated(), in 1/64 GB
    stats,              \* what the monitor's queries returned
    fs,                 \* the models root on disk
    catalog,            \* what _discover_models found
    gen,                \* a pipeline's generate call and how it ended
    svc                 \* a generate_video call in progress

optVars == <<free, optPc, params, outcome>>
mgrVars == <<enable_caching, pipeline_cache, current_pipeline,
             current_model_name, pipes, history>>
devVars == <<cuda_available, total_vram, allocated, stats>>
catVars == <<fs, catalog>>
otherVars == <<devVars, catVars, gen, svc>>
vars == <<free, optPc, params, outcome, enable_caching, pipeline_cache,
          current_pipeline, current_model_name, pipes, history,
          cuda_available, total_vram, allocated, stats, fs, catalog, gen, svc>>

None == "None"

Max(a, b) == IF a >= b THEN a ELSE b
Min(a, b) == IF a <= b THEN a ELSE b

(***************************************************************************)
(* VRAMOptimizer                                                           *)
(***************************************************************************)

\* VRAM_ESTIMATES, in hundredths of a GB.
VRAM_ESTIMATES ==
    [svd         |-> [base_model |-> 600, overhead |-> 150],
     animatediff |-> [base_model |-> 500, overhead |-> 150]]

\* VRAMOptimizer.__init__(target_vram_gb=11.0), in hundredths of a GB.
target_vram == 1100

\* The hard floor of the frame-count step: max(16, ...).
MinFrames == 16

\* 1024 ** 3 / 16 = 2^26.  100 * (w*h*nf*4) / 1024**3 = 25 * (w*h*nf) / 2^26.
TwoTo26 == 67108864

\* round(x, 2) of Python on x = whole/100 + (num/den)/100, 0 <= num < den:
\* to the nearest hundredth, a tie going to the even hundredth.
RoundHalfEven(whole, num, den) ==
    IF 2 * num > den \/ (2 * num = den /\ whole % 2 = 1)
    THEN whole + 1
    ELSE whole

\* estimate_vram_usage(params) raises: "frame_buffer /= decode_chunk_size" is
\* a ZeroDivisionError for a chunk size of 0, and nothing else is checked.
estimate_raises(p) == p.decodeChunkSize = 0

\* estimate_vram_usage(params): base + frame_buffer + overhead, rounded to two
\* decimals, in hundredths of a GB.  frame_buffer =
\* (width * height * num_frames * 4) / 1024**3 / decode_chunk_size.  The
\* quotient is taken in steps that stay below 2^31; a negative chunk size
\* is taken as the negated product over the positive chunk size.
estimate_vram_usage(p) ==
    LET estimates == IF p.pipeline \in DOMAIN VRAM_ESTIMATES
                     THEN VRAM_ESTIMATES[p.pipeline]
                     ELSE VRAM_ESTIMATES["svd"]
        base     == estimates.base_model
        overhead == estimates.overhead
        product  == p.width * p.height * p.numFrames
        n  == IF p.decodeChunkSize < 0 THEN 0 - product ELSE product
        d  == IF p.decodeChunkSize < 0 THEN 0 - p.decodeChunkSize
              ELSE p.decodeChunkSize
        \* 25 * n = i * 2^26 + f
        q  == n \div TwoTo26
        r  == n % TwoTo26
        i  == 25 * q + ((25 * r) \div TwoTo26)
        f  == (25 * r) % TwoTo26
        \* 100 * frame_buffer = j + (k * 2^26 + f) / (2^26 * decode_chunk_size)
        j  == i \div d
        k  == i % d
    IN  RoundHalfEven(base + j + overhead,
                      k * TwoTo26 + f,
                      TwoTo26 * d)

\* Mutation of OverBudget: ">=" for ">" in the comparison with available.
OverBudgetAtEquality(estimated, available) ==
    64 * estimated >= 100 * available \/ estimated > target_vram

\* "estimated > available or estimated > self.target_vram"
OverBudget(estimated, available) ==
    64 * estimated > 100 * available \/ estimated > target_vram

\* "estimated <= available": the estimate fits the free memory.
Fits(estimated, available) == 64 * estimated <= 100 * available

\* Mutation of ProportionalFrames: the 0.9 safety margin left out.
ProportionalFramesNoMargin(old_frames, available, estimated) ==
    (old_frames * available * 100) \div (64 * estimated)

\* int(old_frames * (available / estimated) * 0.9) for estimated > 0 and
\* available >= 0: int() truncates toward zero.
ProportionalFrames(old_frames, available, estimated) ==
    IF old_frames >= 0
    THEN (old_frames * available * 45) \div (32 * estimated)
    ELSE 0 - (((0 - old_frames) * available * 45) \div (32 * estimated))

\* Strategy 1: reduce decode_chunk_size.  s is the record of the locals
\* optimized, optimizations, estimated, available.
Strategy1(s) ==
    IF s.optimized.decodeChunkSize > 2
    THEN LET o == [s.optimized EXCEPT !.decodeChunkSize = 2]
         IN  [s EXCEPT !.optimized = o,
                       !.optimizations = Append(@,
                           [kind |-> "decode_chunk_size",
                            old |-> <<s.optimized.decodeChunkSize>>,
                            new |-> <<2>>]),
                       !.estimated = estimate_vram_usage(o)]
    ELSE s

\* Mutation of ClampFrames: the floor of 16 left out.
ClampFramesNoFloor(max_frames, old_frames) == Min(max_frames, old_frames)

\* "max_frames = max(16, min(max_frames, old_frames))"
ClampFrames(max_frames, old_frames) ==
    Max(MinFrames, Min(max_frames, old_frames))

\* Strategy 2: reduce num_frames.
Strategy2(s) ==
    IF OverBudget(s.estimated, s.available)
    THEN LET old_frames == s.optimized.numFrames
             max_frames == ClampFrames(
                               ProportionalFrames(old_frames, s.available,
                                                  s.estimated),
                               old_frames)
         IN  IF max_frames < old_frames
             THEN LET o == [s.optimized EXCEPT !.numFrames = max_frames]
                  IN  [s EXCEPT !.optimized = o,
                                !.optimizations = Append(@,
                                    [kind |-> "num_frames",
                                     old |-> <<old_frames>>,
                                     new |-> <<max_frames>>]),
                                !.estimated = estimate_vram_usage(o)]
             ELSE s
    ELSE s

\* The floor of the resolution step: "width > 512 or height > 512".
SafeResolution == 512

\* Mutation of Strategy3: the resolution step left out.
Strategy3Skipped(s) == s

\* Mutation of Strategy3: the resolution step runs without looking at the
\* estimate re-computed after the frame-count step.
Strategy3Unguarded(s) ==
    LET width  == s.optimized.width
        height == s.optimized.height
    IN  IF width > SafeResolution \/ height > SafeResolution
        THEN [s EXCEPT !.optimized = [@ EXCEPT !.width = SafeResolution,
                                               !.height = SafeResolution],
                       !.optimizations = Append(@,
                           [kind |-> "resolution",
                            old |-> <<width, height>>,
                            new |-> <<SafeResolution, SafeResolution>>])]
        ELSE s

\* Strategy 3: reduce resolution (last resort).  No re-estimate follows.
Strategy3(s) ==
    IF OverBudget(s.estimated, s.available)
    THEN LET width  == s.optimized.width
             height == s.optimized.height
         IN  IF width > SafeResolution \/ height > SafeResolution
             THEN [s EXCEPT !.optimized = [@ EXCEPT !.width = SafeResolution,
                                                    !.height = SafeResolution],
                            !.optimizations = Append(@,
                                [kind |-> "resolution",
                                 old |-> <<width, height>>,
                                 new |-> <<SafeResolution, SafeResolution>>])]
             ELSE s
    ELSE s

\* optimize_params(params), with available the value get_available_vram()
\* returned at line 173.  The result holds the returned optimized dict, the
\* recorded optimizations and the locals estimated and available.
optimize_params(p, available) ==
    LET s0 == [optimized |-> p, optimizations |-> <<>>,
               estimated |-> estimate_vram_usage(p), available |-> available]
    IN  IF OverBudget(s0.estimated, available)
        THEN Strategy3(Strategy2(Strategy1(s0)))
        ELSE s0

\* Mutation of get_available_vram: within a generate_video call the value
\* read when the call began is reused.
get_available_vram_cached ==
    IF svc.pc \in {"loaded", "optimized"}
    THEN svc.free_at_start
    ELSE IF cuda_available THEN free ELSE 0

\* Mutation of get_available_vram: without an accelerator the target budget
\* (11 GB) is assumed available.
get_available_vram_assumes_target == IF cuda_available THEN free ELSE 11 * 64

\* VRAMMonitor.get_available_vram(): free / 1024**3, read at the call; 0.0
\* when no accelerator is available.
get_available_vram == IF cuda_available THEN free ELSE 0

\* VRAMMonitor.get_used_vram()
get_used_vram == IF cuda_available THEN allocated ELSE 0

\* round(x, 2) of a number x of 1/64 GB, in hundredths of a GB.
Round2(x) == RoundHalfEven((100 * x) \div 64, (100 * x) % 64, 64)

\* round(used / total * 100, 1), in tenths of a percent; 0 when total is 0.
PercentUsed(used, total) ==
    IF total > 0
    THEN RoundHalfEven((1000 * used) \div total, (1000 * used) % total, total)
    ELSE 0

\* VRAMMonitor.get_vram_stats()
get_vram_stats ==
    IF cuda_available
    THEN [total_gb     |-> Round2(total_vram),
          used_gb      |-> Round2(get_used_vram),
          available_gb |-> Round2(get_available_vram),
          percent_used |-> PercentUsed(get_used_vram, total_vram)]
    ELSE [total_gb |-> 0, used_gb |-> 0, available_gb |-> 0,
          percent_used |-> 0]

(***************************************************************************)
(* Inputs of the optimizer specification                                   *)
(***************************************************************************)
Pipelines   == {"svd", "animatediff", "other"}
Widths      == {256, 512, 1024, 2048}
Heights     == {256, 512, 576, 2048}
FrameCounts == {8, 16, 17, 25, 100, 250}
ChunkSizes  == {1, 2, 3, 4, 8}
\* 0 (no accelerator), 6 GB, 6.5 GB .. 6.53 GB, 7.5 GB .. 7.75 GB, 11 GB,
\* 11.25 GB, 12 GB, 24 GB
FreeValues  == {0, 384, 416, 417, 418, 480, 481, 482, 484, 488, 496,
                704, 720, 768, 1536}

Requests ==
    [pipeline : Pipelines, width : Widths, height : Heights,
     numFrames : FrameCounts, decodeChunkSize : ChunkSizes]

NoParams  == [pipeline |-> None, width |-> 0, height |-> 0,
              numFrames |-> 0, decodeChunkSize |-> 0]
NoOutcome == [optimized |-> NoParams, optimizations |-> <<>>,
              estimated |-> 0, available |-> 0]

(***************************************************************************)
(* The optimizer specification: one optimize_params call on a request,     *)
(* against the free memory the device reports at that call.                *)
(***************************************************************************)

\* The manager as constructed (ModelManager.__init__), caching as given.
MgrInit ==
    /\ enable_caching \in BOOLEAN
    /\ pipeline_cache = [n \in {} |-> 0]
    /\ current_pipeline = 0
    /\ current_model_name = None
    /\ pipes = <<>>
    /\ history = <<>>

\* Nothing asked of the monitor yet.
NoStats == [asked |-> <<>>, vram_stats |-> <<>>, available |-> <<>>]

\* A device with an accelerator of 24 GB and nothing allocated.
DevIdle ==
    /\ cuda_available = TRUE
    /\ total_vram = 24 * 64
    /\ allocated = 0
    /\ stats = NoStats

\* No models root scanned, no generate or generate_video call made.
NoCatalog == [scanned |-> FALSE, error |-> FALSE, models |-> {}]
NoFs  == [root |-> "absent"]
NoGen == [called |-> FALSE]
NoSvc == [pc |-> "idle", model_name |-> None, kind |-> None,
          is_loaded |-> FALSE, args |-> <<>>, free_at_start |-> -1,
          free_at_opt |-> -1, free_at_gen |-> -1, exported |-> FALSE,
          success |-> FALSE, error |-> None]

RestIdle == fs = NoFs /\ catalog = NoCatalog /\ gen = NoGen /\ svc = NoSvc

OptInit ==
    /\ free \in FreeValues
    /\ optPc = "idle"
    /\ params = NoParams
    /\ outcome = NoOutcome

\* optimizer.optimize_params(p): its first statement is the estimate of p,
\* which may raise.
OptimizeParams(p) ==
    /\ optPc = "idle"
    /\ params' = p
    /\ IF estimate_raises(p)
       THEN outcome' = NoOutcome /\ optPc' = "raised"
       ELSE /\ outcome' = optimize_params(p, get_available_vram)
            /\ optPc' = "done"
    /\ UNCHANGED <<free, mgrVars, otherVars>>

OptNext == \E p \in Requests : OptimizeParams(p)

\* The optimizer's device, and a manager as constructed.
InitOpt == OptInit /\ MgrInit /\ enable_caching = TRUE /\ DevIdle /\ RestIdle

SpecOpt == InitOpt /\ [][OptNext]_vars

(***************************************************************************)
(* Properties of optimize_params                                           *)
(***************************************************************************)

\* The estimate of the parameters optimize_params returned.
FinalEstimate == estimate_vram_usage(outcome.optimized)

\* The estimate of the request as it was passed in.
RequestEstimate == estimate_vram_usage(params)

Unchanged == outcome.optimized = params /\ outcome.optimizations = <<>>

\* C1 as stated: every request whose estimate is <= the available VRAM is
\* returned unchanged, with no adjustment recorded.
C1_FitsAvailableUnchanged ==
    (optPc = "done" /\ Fits(RequestEstimate, outcome.available)) => Unchanged

\* C1 amended: every request whose estimate is <= the available VRAM and
\* <= the target ceiling (11 GB) is returned unchanged, with no adjustment
\* recorded.
C1_FitsBudgetUnchanged ==
    (/\ optPc = "done"
     /\ Fits(RequestEstimate, outcome.available)
     /\ RequestEstimate <= 1100) => Unchanged

\* A request that fits exactly (estimate = available) came back unchanged.
C1_Witness ==
    /\ optPc = "done"
    /\ 64 * RequestEstimate = 100 * outcome.available
    /\ params.decodeChunkSize > 2
    /\ params.numFrames > 16
    /\ Unchanged

\* C2 as stated: the returned numFrames is never below 16, whatever the
\* request and the available VRAM.
C2_FramesAtLeastFloor ==
    optPc = "done" => outcome.optimized.numFrames >= 16

\* C2 amended: optimize_params never lowers numFrames below 16: the returned
\* numFrames is at least 16, or the request's own numFrames when that is
\* lower.
C2_FramesNotLoweredBelowFloor ==
    optPc = "done" =>
        outcome.optimized.numFrames >= Min(16, params.numFrames)

\* The proportional value fell below 16 and the floor held the result at 16.
C2_Witness ==
    /\ optPc = "done"
    /\ params.numFrames > 16
    /\ outcome.optimized.numFrames = 16
    /\ outcome.available = 0

\* C3: no parameter of the returned dict exceeds its value in the request.
C3_NeverIncreases ==
    optPc = "done" =>
        /\ outcome.optimized.decodeChunkSize <= params.decodeChunkSize
        /\ outcome.optimized.numFrames <= params.numFrames
        /\ outcome.optimized.width <= params.width
        /\ outcome.optimized.height <= params.height

\* C4 as stated: the returned parameters fit the available VRAM, or they are
\* at every hard floor (decodeChunkSize <= 2, numFrames at 16 or the original
\* if lower, width and height <= 512).
C4_FitsOrAllFloors ==
    optPc = "done" =>
        \/ Fits(FinalEstimate, outcome.available)
        \/ /\ outcome.optimized.decodeChunkSize <= 2
           /\ outcome.optimized.numFrames = Min(16, params.numFrames)
           /\ outcome.optimized.width <= 512
           /\ outcome.optimized.height <= 512

\* C4 amended: the returned parameters fit the available VRAM, or the
\* chunk-size and resolution floors are reached (decodeChunkSize <= 2, width
\* and height <= 512) while numFrames lies between min(16, original) and the
\* original: one proportional step, not necessarily down to the floor.
C4_FitsOrStepsExhausted ==
    optPc = "done" =>
        \/ Fits(FinalEstimate, outcome.available)
        \/ /\ outcome.optimized.decodeChunkSize <= 2
           /\ outcome.optimized.width <= 512
           /\ outcome.optimized.height <= 512
           /\ outcome.optimized.numFrames >= Min(16, params.numFrames)
           /\ outcome.optimized.numFrames <= params.numFrames

\* A best-effort outcome: over budget, all three steps applied, numFrames
\* reduced but still above the floor.
C4_Witness ==
    /\ optPc = "done"
    /\ ~Fits(FinalEstimate, outcome.available)
    /\ Len(outcome.optimizations) = 3
    /\ outcome.optimized.numFrames > 16
    /\ outcome.optimized.numFrames < params.numFrames

\* The request exceeds the available VRAM because of its chunk size alone:
\* with the same pipeline, width, height and numFrames, another chunk size
\* gives an estimate that fits.
OnlyDueToChunkSize ==
    /\ params.decodeChunkSize > 2
    /\ ~Fits(RequestEstimate, outcome.available)
    /\ \E d \in ChunkSizes :
          Fits(estimate_vram_usage([params EXCEPT !.decodeChunkSize = d]),
               outcome.available)

\* C5: a request over budget only because of its decodeChunkSize (> 2) comes
\* back with decodeChunkSize 2 and nothing else changed, and then fits.
C5_ChunkSizeAloneSuffices ==
    (optPc = "done" /\ OnlyDueToChunkSize) =>
        /\ outcome.optimized = [params EXCEPT !.decodeChunkSize = 2]
        /\ Fits(FinalEstimate, outcome.available)

\* The scenario request and budget: 1024x576, 100 frames, chunk size 8, 6 GB.
Scenario ==
    [pipeline |-> "svd", width |-> 1024, height |-> 576,
     numFrames |-> 100, decodeChunkSize |-> 8]

\* C6: on the scenario request with 6 GB available, the chunk size is set to 2
\* first, then (the estimate 7.61 GB still being over 6 GB) numFrames becomes
\* max(16, floor(100 * (6 / 7.61) * 0.9)) = 70, and the returned parameters
\* fit 6 GB or else have the resolution reduced to 512x512.
C6_Scenario ==
    (optPc = "done" /\ params = Scenario /\ outcome.available = 6 * 64) =>
        /\ outcome.optimizations[1].kind = "decode_chunk_size"
        /\ outcome.optimized.decodeChunkSize = 2
        /\ outcome.optimizations[2].kind = "num_frames"
        /\ outcome.optimized.numFrames = Max(16, (100 * 600 * 9) \div (761 * 10))
        /\ \/ Fits(FinalEstimate, outcome.available)
           \/ /\ outcome.optimized.width = 512
              /\ outcome.optimized.height = 512

\* The scenario has been optimized against 6 GB.
C6_Witness ==
    /\ optPc = "done"
    /\ params = Scenario
    /\ outcome.available = 6 * 64
    /\ outcome.optimized.numFrames = 70

\* The estimate re-computed after the chunk-size step, and after the
\* frame-count step.
EstimateAfterChunk ==
    estimate_vram_usage(
        [params EXCEPT !.decodeChunkSize = outcome.optimized.decodeChunkSize])
EstimateAfterFrames ==
    estimate_vram_usage(
        [params EXCEPT !.decodeChunkSize = outcome.optimized.decodeChunkSize,
                       !.numFrames = outcome.optimized.numFrames])

\* The kinds of the recorded adjustments, in the order recorded.
AdjustmentKinds(optimizations) ==
    [i \in DOMAIN optimizations |-> optimizations[i].kind]

\* The adjustments are recorded in the order chunk size, frame count,
\* resolution, each at most once, and each parameter that changed has its
\* record.
InFixedOrder ==
    /\ AdjustmentKinds(outcome.optimizations) \in
          {<<>>, <<"decode_chunk_size">>, <<"num_frames">>, <<"resolution">>,
           <<"decode_chunk_size", "num_frames">>,
           <<"decode_chunk_size", "resolution">>,
           <<"num_frames", "resolution">>,
           <<"decode_chunk_size", "num_frames", "resolution">>}
    /\ outcome.optimized.decodeChunkSize # params.decodeChunkSize <=>
          \E i \in DOMAIN outcome.optimizations :
              outcome.optimizations[i].kind = "decode_chunk_size"
    /\ outcome.optimized.numFrames # params.numFrames <=>
          \E i \in DOMAIN outcome.optimizations :
              outcome.optimizations[i].kind = "num_frames"
    /\ (\/ outcome.optimized.width # params.width
        \/ outcome.optimized.height # params.height) =>
          \E i \in DOMAIN outcome.optimizations :
              outcome.optimizations[i].kind = "resolution"

\* C23 as stated: the adjustments are applied in the order chunk size, frame
\* count, resolution, each at most once; numFrames is changed only if the
\* estimate re-computed after the chunk-size step exceeds the available
\* VRAM, and the resolution only if the estimate re-computed after the
\* frame-count step exceeds the available VRAM.
C23_StopsWhenFitsAvailable ==
    optPc = "done" =>
        /\ InFixedOrder
        /\ outcome.optimized.numFrames # params.numFrames =>
              ~Fits(EstimateAfterChunk, outcome.available)
        /\ (\/ outcome.optimized.width # params.width
            \/ outcome.optimized.height # params.height) =>
              ~Fits(EstimateAfterFrames, outcome.available)

\* C23 amended: the adjustments are applied in the order chunk size, frame
\* count, resolution, each at most once; a request is adjusted only if its
\* estimate exceeds the available VRAM or the target ceiling (11 GB),
\* numFrames is changed only if the estimate re-computed after the
\* chunk-size step still exceeds one of the two, and the resolution only if
\* the estimate re-computed after the frame-count step still does.
C23_StopsWhenWithinBudget ==
    optPc = "done" =>
        /\ InFixedOrder
        /\ outcome.optimizations # <<>> =>
              (\/ ~Fits(RequestEstimate, outcome.available)
               \/ RequestEstimate > 1100)
        /\ outcome.optimized.numFrames # params.numFrames =>
              (\/ ~Fits(EstimateAfterChunk, outcome.available)
               \/ EstimateAfterChunk > 1100)
        /\ (\/ outcome.optimized.width # params.width
            \/ outcome.optimized.height # params.height) =>
              (\/ ~Fits(EstimateAfterFrames, outcome.available)
               \/ EstimateAfterFrames > 1100)

\* A request over the available VRAM was brought within the budget by the
\* frame-count step, and the resolution, which could have been lowered, was
\* left alone.
C23_Witness ==
    /\ optPc = "done"
    /\ ~Fits(RequestEstimate, outcome.available)
    /\ AdjustmentKinds(outcome.optimizations) = <<"num_frames">>
    /\ params.width > 512
    /\ outcome.optimized.width = params.width
    /\ Fits(FinalEstimate, outcome.available)
    /\ FinalEstimate <= 1100

\* C24: when the frame-count step changes numFrames, the new value is
\* max(16, floor(old * (available / estimated) * 0.9)) for the estimate
\* re-computed after the chunk-size step, and is less than the old value;
\* when the step runs and that value is not less than the old one, numFrames
\* is left unchanged.
C24_FrameCountStep ==
    optPc = "done" =>
        LET old == params.numFrames
            new == outcome.optimized.numFrames
            value == Max(16, (old * outcome.available * 9 * 100)
                                 \div (EstimateAfterChunk * 10 * 64))
        IN  /\ new # old => new = value /\ new < old
            /\ value >= old => new = old

\* The frame-count step lowered numFrames to a value above the floor, after
\* the chunk-size step had changed the estimate.
C24_Witness ==
    /\ optPc = "done"
    /\ outcome.optimized.numFrames < params.numFrames
    /\ outcome.optimized.numFrames > 16
    /\ EstimateAfterChunk # RequestEstimate

\* C25: for the pipeline, width, height and frame count of a request, the
\* estimate with a smaller decodeChunkSize is <= the estimate with the
\* request's, so the chunk-size step never increases the estimate.
C25_LowerChunkLowerEstimate ==
    optPc = "done" =>
        /\ \A d \in ChunkSizes :
              d < params.decodeChunkSize =>
                estimate_vram_usage([params EXCEPT !.decodeChunkSize = d])
                    <= RequestEstimate
        /\ EstimateAfterChunk <= RequestEstimate

(***************************************************************************)
(* The validation specification: one estimate_vram_usage or                *)
(* optimize_params call on a request that may be malformed.                *)
(***************************************************************************)

\* Requests with zero and negative entries next to well-formed ones.
AnyRequests ==
    [pipeline : {"svd", "animatediff"}, width : {-512, 0, 1024},
     height : {-576, 0, 576}, numFrames : {-5, 0, 25, 100},
     decodeChunkSize : {-2, 0, 1, 4}]

\* optimizer.estimate_vram_usage(p)
EstimateVramUsage(p) ==
    /\ optPc = "idle"
    /\ params' = p
    /\ IF estimate_raises(p)
       THEN outcome' = NoOutcome /\ optPc' = "estimate_raised"
       ELSE /\ outcome' = [NoOutcome EXCEPT
                              !.estimated = estimate_vram_usage(p)]
            /\ optPc' = "estimated"
    /\ UNCHANGED <<free, mgrVars, otherVars>>

ValNext ==
    \/ \E p \in AnyRequests : EstimateVramUsage(p)
    \/ \E p \in AnyRequests : OptimizeParams(p)

SpecVal == InitOpt /\ [][ValNext]_vars

\* The request has a zero or negative width, height, frame count or chunk
\* size.
Malformed ==
    \/ params.width <= 0
    \/ params.height <= 0
    \/ params.numFrames <= 0
    \/ params.decodeChunkSize <= 0

\* C21: estimate_vram_usage and optimize_params raise for a request with a
\* zero or negative width, height, frame count or chunk size, and for no
\* other request.
C21_MalformedRejected ==
    optPc # "idle" =>
        (optPc \in {"raised", "estimate_raised"} <=> Malformed)

(***************************************************************************)
(* ModelManager and BasePipeline                                           *)
(***************************************************************************)

\* ModelManager.available_models after _discover_models: name -> model_type.
\* A models root holding svd-xt, animatediff and one weights file in
\* realistic-vision.
available_models ==
    [n \in {"svd-xt", "animatediff-rv"} |->
        IF n = "svd-xt" THEN "svd" ELSE "animatediff"]

\* The names a caller may pass: the catalog's and one that is in no catalog.
ModelNames == DOMAIN available_models \cup {"no-such-model"}

\* What load_model meets: everything in place, the model path missing,
\* the available VRAM below the pipeline's minimum, the weight loader raising.
LoadEnvs == {"ok", "no_path", "low_vram", "loader_raises"}

\* The number of calls made on one manager.
MaxCalls == 4

\* BasePipeline.__init__: pipe = None, is_loaded = False.
NewPipeline(name) == [name |-> name, pipe |-> FALSE, is_loaded |-> FALSE]

\* BasePipeline.unload_model on the object o.
unload_model(o) ==
    IF o.pipe THEN [o EXCEPT !.pipe = FALSE, !.is_loaded = FALSE] ELSE o

\* SVDPipeline.load_model / AnimateDiffPipeline.load_model on a fresh object:
\* the error raised, or "ok".
load_model_result(env) ==
    CASE env = "no_path"       -> "ModelLoadError"
      [] env = "low_vram"      -> "VRAMError"
      [] env = "loader_raises" -> "ModelLoadError"
      [] OTHER                 -> "ok"

\* load_model's effect on the object: loaded when nothing raised.
load_model(o, env) ==
    IF load_model_result(env) = "ok"
    THEN [o EXCEPT !.pipe = TRUE, !.is_loaded = TRUE]
    ELSE o

\* Mutation of not_found_error: an error kind of its own.
not_found_error_distinct == "NotFoundError"

\* The error load_pipeline raises for a name that is not in available_models.
not_found_error == "ModelLoadError"

\* Mutation of CacheHit: the cache is never consulted.
CacheHitNever(model_name) == FALSE

\* "if self.enable_caching and model_name in self.pipeline_cache"
CacheHit(model_name) ==
    enable_caching /\ model_name \in DOMAIN pipeline_cache

\* "if self.current_pipeline and self.current_model_name != model_name:
\*      self.current_pipeline.unload_model()": the heap after it.
UnloadCurrentIfDifferent(model_name) ==
    IF current_pipeline # 0 /\ current_model_name # model_name
    THEN [pipes EXCEPT ![current_pipeline] = unload_model(@)]
    ELSE pipes

\* Mutation of CachePut: storing an entry drops the other entries.
CachePutEvicting(cache, model_name, id) == [n \in {model_name} |-> id]

\* The cache with model_name bound to the pipeline id.
CachePut(cache, model_name, id) ==
    [n \in DOMAIN cache \cup {model_name} |->
        IF n = model_name THEN id ELSE cache[n]]

Call(op, name, result, loader, returned) ==
    [op |-> op, name |-> name, result |-> result, loader |-> loader,
     returned |-> returned]

\* Mutation of load_pipeline: on a cache miss the new pipeline is cached and
\* made current before load_model runs, so a failed load leaves its entry.
load_pipeline_registers_first(model_name, env) ==
    /\ Len(history) < MaxCalls
    /\ IF model_name \notin DOMAIN available_models
       THEN /\ history' = Append(history,
                   Call("load_pipeline", model_name, not_found_error, FALSE, 0))
            /\ UNCHANGED <<pipeline_cache, current_pipeline,
                           current_model_name, pipes>>
       ELSE IF CacheHit(model_name)
       THEN /\ current_pipeline' = pipeline_cache[model_name]
            /\ current_model_name' = model_name
            /\ history' = Append(history,
                   Call("load_pipeline", model_name, "ok", FALSE,
                        pipeline_cache[model_name]))
            /\ UNCHANGED <<pipeline_cache, pipes>>
       ELSE LET id == Len(pipes) + 1
                result == load_model_result(env)
            IN  /\ pipes' = Append(UnloadCurrentIfDifferent(model_name),
                                   load_model(NewPipeline(model_name), env))
                /\ pipeline_cache' =
                       IF enable_caching
                       THEN CachePut(pipeline_cache, model_name, id)
                       ELSE pipeline_cache
                /\ current_pipeline' = id
                /\ current_model_name' = model_name
                /\ history' = Append(history,
                       Call("load_pipeline", model_name, result, TRUE,
                            IF result = "ok" THEN id ELSE 0))
    /\ UNCHANGED <<enable_caching, optVars, otherVars>>

\* manager.load_pipeline(model_name), env being what load_model meets.
load_pipeline(model_name, env) ==
    /\ Len(history) < MaxCalls
    /\ IF model_name \notin DOMAIN available_models
       THEN /\ history' = Append(history,
                   Call("load_pipeline", model_name, not_found_error, FALSE, 0))
            /\ UNCHANGED <<pipeline_cache, current_pipeline,
                           current_model_name, pipes>>
       ELSE IF CacheHit(model_name)
       THEN /\ current_pipeline' = pipeline_cache[model_name]
            /\ current_model_name' = model_name
            /\ history' = Append(history,
                   Call("load_pipeline", model_name, "ok", FALSE,
                        pipeline_cache[model_name]))
            /\ UNCHANGED <<pipeline_cache, pipes>>
       ELSE LET unloaded == UnloadCurrentIfDifferent(model_name)
                id       == Len(pipes) + 1
                result   == load_model_result(env)
                heap     == Append(unloaded,
                                   load_model(NewPipeline(model_name), env))
            IN  /\ pipes' = heap
                /\ IF result = "ok"
                   THEN /\ pipeline_cache' =
                              IF enable_caching
                              THEN CachePut(pipeline_cache, model_name, id)
                              ELSE pipeline_cache
                        /\ current_pipeline' = id
                        /\ current_model_name' = model_name
                        /\ history' = Append(history,
                               Call("load_pipeline", model_name, "ok", TRUE, id))
                   ELSE /\ history' = Append(history,
                               Call("load_pipeline", model_name, result, TRUE, 0))
                        /\ UNCHANGED <<pipeline_cache, current_pipeline,
                                       current_model_name>>
    /\ UNCHANGED <<enable_caching, optVars, otherVars>>

\* The pipelines after every cached one was unloaded.
UnloadCached ==
    [i \in DOMAIN pipes |->
        IF \E n \in DOMAIN pipeline_cache : pipeline_cache[n] = i
        THEN unload_model(pipes[i])
        ELSE pipes[i]]

\* Mutation of unload_all: the cached pipelines are unloaded but the cache
\* keeps its entries.
unload_all_keeps_cache ==
    /\ Len(history) < MaxCalls
    /\ pipes' = UnloadCached
    /\ current_pipeline' = 0
    /\ current_model_name' = None
    /\ history' = Append(history, Call("unload_all", None, "ok", FALSE, 0))
    /\ UNCHANGED <<pipeline_cache, enable_caching, optVars, otherVars>>

\* Mutation of unload_all: the cache is cleared but the current pipeline and
\* its name are kept.
unload_all_keeps_current ==
    /\ Len(history) < MaxCalls
    /\ pipes' = UnloadCached
    /\ pipeline_cache' = [n \in {} |-> 0]
    /\ history' = Append(history, Call("unload_all", None, "ok", FALSE, 0))
    /\ UNCHANGED <<current_pipeline, current_model_name, enable_caching,
                   optVars, otherVars>>

\* manager.unload_all()
unload_all ==
    /\ Len(history) < MaxCalls
    /\ pipes' = UnloadCached
    /\ pipeline_cache' = [n \in {} |-> 0]
    /\ current_pipeline' = 0
    /\ current_model_name' = None
    /\ history' = Append(history, Call("unload_all", None, "ok", FALSE, 0))
    /\ UNCHANGED <<enable_caching, optVars, otherVars>>

MgrNext ==
    \/ \E n \in ModelNames, env \in LoadEnvs : load_pipeline(n, env)
    \/ unload_all

\* The manager specification: any sequence of load_pipeline and unload_all
\* calls on one manager, the optimizer idle.
InitMgr == MgrInit /\ OptInit /\ free = 0 /\ DevIdle /\ RestIdle

SpecMgr == InitMgr /\ [][MgrNext]_vars

(***************************************************************************)
(* Properties of the pipeline cache                                        *)
(***************************************************************************)

\* The i-th call was a load_pipeline call that returned a pipeline.
OkLoad(i) == history[i].op = "load_pipeline" /\ history[i].result = "ok"

\* How often calls lo..hi invoked the loader (pipeline construction and
\* load_model) for the model name.
LoaderCalls(name, lo, hi) ==
    Cardinality({i \in lo..hi : /\ history[i].op = "load_pipeline"
                                /\ history[i].name = name
                                /\ history[i].loader})

\* C7: with caching enabled, two consecutive successful load_pipeline calls for
\* the same name invoke the loader at most once, and exactly once when they
\* are the manager's first two calls; the second call invokes no loader and
\* returns the pipeline object the first returned.
C7_SecondCallIsCacheHit ==
    enable_caching =>
        \A i \in 1..(Len(history) - 1) :
            (OkLoad(i) /\ OkLoad(i + 1) /\ history[i].name = history[i + 1].name)
            => /\ ~history[i + 1].loader
               /\ history[i + 1].returned = history[i].returned
               /\ LoaderCalls(history[i].name, i, i + 1) <= 1
               /\ i = 1 => LoaderCalls(history[i].name, 1, 2) = 1

\* A manager with caching whose first two calls loaded the same model.
C7_Witness ==
    /\ enable_caching
    /\ Len(history) = 2
    /\ OkLoad(1) /\ OkLoad(2)
    /\ history[1].name = history[2].name

\* The last three calls were successful loads of A, B, A with A # B.
LastThreeABA ==
    LET n == Len(history)
    IN  /\ n >= 3
        /\ OkLoad(n - 2) /\ OkLoad(n - 1) /\ OkLoad(n)
        /\ history[n - 2].name = history[n].name
        /\ history[n - 1].name # history[n].name

\* C8: with caching enabled, after load_pipeline(A), load_pipeline(B),
\* load_pipeline(A) the loader ran at most once for A in these calls (exactly
\* once on a fresh manager) and not in the third, A is the active model and B
\* is still cached but not active.
C8_ABA ==
    (enable_caching /\ LastThreeABA) =>
        LET n == Len(history)
            A == history[n].name
            B == history[n - 1].name
        IN  /\ ~history[n].loader
            /\ LoaderCalls(A, n - 2, n) <= 1
            /\ n = 3 => LoaderCalls(A, 1, 3) = 1
            /\ current_model_name = A
            /\ A \in DOMAIN pipeline_cache
            /\ current_pipeline = pipeline_cache[A]
            /\ current_pipeline = history[n - 2].returned
            /\ B \in DOMAIN pipeline_cache
            /\ pipeline_cache[B] # current_pipeline

\* A fresh manager with caching on which A, B, A were loaded.
C8_Witness ==
    enable_caching /\ Len(history) = 3 /\ LastThreeABA

\* C9: with caching enabled, every pipeline held in pipeline_cache is loaded
\* (is_loaded true, pipe not None).
C9_CachedAreLoaded ==
    enable_caching =>
        \A n \in DOMAIN pipeline_cache :
            /\ pipes[pipeline_cache[n]].is_loaded
            /\ pipes[pipeline_cache[n]].pipe

\* The i-th call was load_pipeline for a name that is not in the catalog.
UnknownLoad(i) ==
    /\ history[i].op = "load_pipeline"
    /\ history[i].name \notin DOMAIN available_models

\* The i-th call was load_pipeline for a cataloged name whose load failed.
FailedLoad(i) ==
    /\ history[i].op = "load_pipeline"
    /\ history[i].name \in DOMAIN available_models
    /\ history[i].result # "ok"

FailedLoadStep ==
    /\ Len(history') = Len(history) + 1
    /\ LET c == history'[Len(history')]
       IN  c.op = "load_pipeline" /\ c.loader /\ c.result # "ok"

\* C11: a load_pipeline(name) whose loader fails on a cache miss leaves no
\* entry for name in pipeline_cache, and pipeline_cache, current_pipeline and
\* current_model_name are what they were before the call.
C11_FailedLoadLeavesNoEntry ==
    [][FailedLoadStep =>
          /\ history'[Len(history')].name \notin DOMAIN pipeline_cache'
          /\ UNCHANGED <<pipeline_cache, current_pipeline,
                         current_model_name>>]_vars

\* A load failed while another model was cached and current.
C11_Witness ==
    LET n == Len(history)
    IN  /\ n >= 2
        /\ enable_caching
        /\ OkLoad(n - 1)
        /\ FailedLoad(n) /\ history[n].loader
        /\ history[n].name # history[n - 1].name
        /\ current_model_name = history[n - 1].name
        /\ DOMAIN pipeline_cache = {history[n - 1].name}

\* Call i loaded A through the loader, call i + 1 was a failed load of
\* another model B.
LoadedThenFailedOther(i) ==
    /\ i >= 1 /\ i + 1 <= Len(history)
    /\ OkLoad(i) /\ history[i].loader
    /\ FailedLoad(i + 1) /\ history[i + 1].loader
    /\ history[i + 1].name # history[i].name

\* C12: with caching enabled, when A was loaded and active and
\* load_pipeline(B) then failed, A is still loaded, and a load_pipeline(A)
\* that follows returns a loaded pipeline without invoking the loader.
C12_FailedLoadSparesActive ==
    LET n == Len(history)
    IN  enable_caching =>
          /\ LoadedThenFailedOther(n - 1) =>
                 pipes[history[n - 1].returned].is_loaded
          /\ (/\ LoadedThenFailedOther(n - 2)
              /\ OkLoad(n)
              /\ history[n].name = history[n - 2].name) =>
                 /\ ~history[n].loader
                 /\ pipes[history[n].returned].is_loaded

\* The i-th call was unload_all.
UnloadAll(i) == history[i].op = "unload_all"

\* C13: when unload_all returns pipeline_cache is empty and current_pipeline
\* and current_model_name are null, whatever calls preceded it; a
\* load_pipeline for a cataloged name that follows it invokes the loader.
C13_UnloadAllEmpties ==
    LET n == Len(history)
    IN  /\ (n >= 1 /\ UnloadAll(n)) =>
               /\ DOMAIN pipeline_cache = {}
               /\ current_pipeline = 0
               /\ current_model_name = None
        /\ \A i \in 1..(n - 1) :
               (/\ UnloadAll(i)
                /\ history[i + 1].op = "load_pipeline"
                /\ history[i + 1].name \in DOMAIN available_models) =>
                   history[i + 1].loader

\* A model was loaded and cached, unload_all ran, and the same model was
\* loaded again through the loader.
C13_Witness ==
    LET n == Len(history)
    IN  /\ n >= 3
        /\ enable_caching
        /\ OkLoad(n - 2) /\ history[n - 2].loader
        /\ UnloadAll(n - 1)
        /\ OkLoad(n) /\ history[n].loader
        /\ history[n].name = history[n - 2].name

\* C14: when unload_all returns, no pipeline that load_pipeline created is
\* still loaded, with caching enabled or disabled.
C14_UnloadAllReleasesAll ==
    LET n == Len(history)
    IN  (n >= 1 /\ UnloadAll(n)) =>
            \A i \in DOMAIN pipes : ~pipes[i].is_loaded

\* C20: current_pipeline and current_model_name are both null or both set,
\* the current pipeline is one the manager created for that name, and with
\* caching enabled the current name is a key of pipeline_cache whose value
\* is current_pipeline.
C20_OneActive ==
    /\ current_pipeline = 0 <=> current_model_name = None
    /\ current_pipeline # 0 =>
          /\ current_pipeline \in DOMAIN pipes
          /\ pipes[current_pipeline].name = current_model_name
          /\ enable_caching =>
                /\ current_model_name \in DOMAIN pipeline_cache
                /\ pipeline_cache[current_model_name] = current_pipeline

\* Two models are cached, one of them is current, and unload_all ran before.
C20_Witness ==
    /\ enable_caching
    /\ current_pipeline # 0
    /\ Cardinality(DOMAIN pipeline_cache) = 2
    /\ \E i \in 1..Len(history) : UnloadAll(i)

\* C26: every load_pipeline call for a cataloged model that misses the cache
\* and fails, fails with ModelLoadError, whether the model path is missing,
\* the weight loader raised, or the available VRAM is below the pipeline's
\* minimum.
C26_LoadFailureIsModelLoadError ==
    \A i \in 1..Len(history) :
        (FailedLoad(i) /\ history[i].loader) =>
            history[i].result = "ModelLoadError"

\* C27: the pipeline a successful load_pipeline call returns is loaded when
\* the call returns (is_loaded true, pipe set), whatever load_pipeline and
\* unload_all calls preceded it.
C27_ReturnedPipelineIsLoaded ==
    LET n == Len(history)
    IN  (n >= 1 /\ OkLoad(n)) =>
            /\ pipes[history[n].returned].is_loaded
            /\ pipes[history[n].returned].pipe

(***************************************************************************)
(* VRAMMonitor: the monitor specification.  A device with or without an    *)
(* accelerator, on which get_vram_stats and get_available_vram are asked.  *)
(***************************************************************************)

\* Devices: total, allocated and free memory in 1/64 GB.
TotalValues     == {8 * 64, 12 * 64, 24 * 64}
AllocatedValues == {0, 1, 48, 100, 384, 500}

\* The manager and the optimizer idle.
MgrIdle ==
    /\ MgrInit /\ enable_caching = TRUE
    /\ optPc = "idle" /\ params = NoParams /\ outcome = NoOutcome

\* VRAMMonitor.__init__: total_vram = _get_total_vram(), 0.0 without an
\* accelerator.
InitMon ==
    /\ cuda_available \in BOOLEAN
    /\ IF cuda_available
       THEN /\ total_vram \in TotalValues
            /\ allocated \in AllocatedValues
            /\ free \in {f \in FreeValues : f + allocated <= total_vram}
       ELSE total_vram = 0 /\ allocated = 0 /\ free = 0
    /\ stats = NoStats
    /\ MgrIdle /\ RestIdle

\* monitor.get_vram_stats()
QueryVramStats ==
    /\ "get_vram_stats" \notin {stats.asked[i] : i \in DOMAIN stats.asked}
    /\ stats' = [stats EXCEPT !.asked = Append(@, "get_vram_stats"),
                              !.vram_stats = <<get_vram_stats>>]
    /\ UNCHANGED <<free, optPc, params, outcome, mgrVars, cuda_available,
                   total_vram, allocated, catVars, gen, svc>>

\* monitor.get_available_vram()
QueryAvailableVram ==
    /\ "get_available_vram" \notin {stats.asked[i] : i \in DOMAIN stats.asked}
    /\ stats' = [stats EXCEPT !.asked = Append(@, "get_available_vram"),
                              !.available = <<get_available_vram>>]
    /\ UNCHANGED <<free, optPc, params, outcome, mgrVars, cuda_available,
                   total_vram, allocated, catVars, gen, svc>>

MonNext == QueryVramStats \/ QueryAvailableVram

SpecMon == InitMon /\ [][MonNext]_vars

\* C19: without an accelerator get_vram_stats returns total, used, available
\* and percent_used all 0 and get_available_vram returns 0; both return a
\* value (neither raises).
C19_FailsSoft ==
    ~cuda_available =>
        /\ stats.vram_stats # <<>> =>
              stats.vram_stats[1] = [total_gb |-> 0, used_gb |-> 0,
                                     available_gb |-> 0, percent_used |-> 0]
        /\ stats.available # <<>> => stats.available[1] = 0
        /\ Len(stats.vram_stats) = Len(SelectSeq(stats.asked,
                                          LAMBDA a : a = "get_vram_stats"))
        /\ Len(stats.available) = Len(SelectSeq(stats.asked,
                                         LAMBDA a : a = "get_available_vram"))

\* Both queries were answered on a device without an accelerator.
C19_Witness ==
    /\ ~cuda_available
    /\ stats.vram_stats # <<>>
    /\ stats.available # <<>>

(***************************************************************************)
(* ModelManager._discover_models: the catalog specification.  A models     *)
(* root on disk is scanned once.  A model name f"{prefix}-{stem}" is kept  *)
(* as the pair of its prefix and stem.                                     *)
(***************************************************************************)

\* What a path can be on disk.
Kinds == {"absent", "dir", "file"}

\* Stems of the *.safetensors files, and the non-reserved subdirectories.
Stems      == {"a", "b"}
CustomDirs == {"c1", "c2"}

\* The models roots: the reserved entries svd-xt, animatediff and
\* realistic-vision, the weights files in realistic-vision, and the weights
\* files in each other subdirectory.  Only a directory holds entries.
FsStates ==
    {f \in [root : Kinds, svd : Kinds, animatediff : Kinds,
            realistic_vision : Kinds, rv_files : SUBSET Stems,
            custom : [CustomDirs -> SUBSET Stems]] :
        /\ f.realistic_vision # "dir" => f.rv_files = {}
        /\ f.root # "dir" =>
              /\ f.svd = "absent" /\ f.animatediff = "absent"
              /\ f.realistic_vision = "absent"
              /\ \A d \in CustomDirs : f.custom[d] = {}}

ModelName(prefix, stem) == [prefix |-> prefix, stem |-> stem]

\* ModelInfo(name, path, model_type): path is the directory and the stem.
ModelInfo(name, dir, model_type) ==
    [name |-> name, dir |-> dir, model_type |-> model_type]

\* Path.exists() and Path.is_dir()
exists(kind) == kind # "absent"
is_dir(kind) == kind = "dir"

\* The svd-xt entry.
SvdWrites(f) ==
    IF exists(f.svd) /\ is_dir(f.svd)
    THEN {ModelInfo(ModelName("svd-xt", ""), "svd-xt", "svd")}
    ELSE {}

\* The animatediff-{stem} entries of realistic-vision.
RealisticVisionWrites(f) ==
    IF exists(f.animatediff) /\ is_dir(f.animatediff)
       /\ exists(f.realistic_vision)
    THEN {ModelInfo(ModelName("animatediff", st), "realistic-vision",
                    "animatediff") : st \in f.rv_files}
    ELSE {}

\* Mutation of CustomWrites: the files of the other subdirectories are
\* entered whether or not anything named animatediff exists.
CustomWritesUnguarded(f) ==
    {ModelInfo(ModelName("custom", w[2]), w[1], "animatediff") :
        w \in {x \in CustomDirs \X Stems : x[2] \in f.custom[x[1]]}}

\* The custom-{stem} entries of the other subdirectories.
CustomWrites(f) ==
    IF exists(f.animatediff)
    THEN {ModelInfo(ModelName("custom", w[2]), w[1], "animatediff") :
            w \in {x \in CustomDirs \X Stems : x[2] \in f.custom[x[1]]}}
    ELSE {}

\* Every assignment available_models[name] = ModelInfo(...) of a scan.
Writes(f) == SvdWrites(f) \cup RealisticVisionWrites(f) \cup CustomWrites(f)

\* The dictionaries the assignments can leave: per name the entry written
\* last, the order of iterdir() and glob() being the file system's.
Catalogs(writes) ==
    {S \in SUBSET writes :
        \A w \in writes : Cardinality({e \in S : e.name = w.name}) = 1}

\* _discover_models on the root f: whether it raised, and the
\* available_models it can leave.
discover_models(f) ==
    IF ~exists(f.root)
    THEN {[scanned |-> TRUE, error |-> FALSE, models |-> {}]}
    ELSE IF ~is_dir(f.root)
    THEN {[scanned |-> TRUE, error |-> TRUE, models |-> {}]}
    ELSE {[scanned |-> TRUE, error |-> FALSE, models |-> S] :
            S \in Catalogs(Writes(f))}

InitCat ==
    /\ fs \in FsStates
    /\ catalog = NoCatalog
    /\ free = 0 /\ DevIdle /\ MgrIdle
    /\ gen = NoGen /\ svc = NoSvc

\* ModelManager.__init__ running _discover_models.
DiscoverModels ==
    /\ ~catalog.scanned
    /\ catalog' \in discover_models(fs)
    /\ UNCHANGED <<free, optPc, params, outcome, mgrVars, devVars, fs, gen,
                   svc>>

CatNext == DiscoverModels

SpecCat == InitCat /\ [][CatNext]_vars

\* The entries of the catalog of a model type.
OfType(t) == {e \in catalog.models : e.model_type = t}

\* C15: scanning a root that has the svd-xt directory and no animatediff
\* directory leaves exactly one entry, svd-xt, and no animatediff-kind
\* entry, whatever weights files realistic-vision and the other
\* subdirectories hold.
C15_BaseModelOnly ==
    (/\ catalog.scanned
     /\ is_dir(fs.root) /\ is_dir(fs.svd) /\ ~is_dir(fs.animatediff)) =>
        /\ Cardinality(catalog.models) = 1
        /\ OfType("animatediff") = {}
        /\ \E e \in catalog.models : e.name = ModelName("svd-xt", "")

\* C16: a scan of a missing root raises nothing and leaves the catalog
\* empty; a scan of a root that is a directory raises nothing, leaves no
\* entry for an absent svd-xt, animatediff or realistic-vision, and leaves
\* the entries of what exists.
C16_AbsentContentSkipped ==
    catalog.scanned =>
        /\ ~exists(fs.root) => ~catalog.error /\ catalog.models = {}
        /\ is_dir(fs.root) =>
              /\ ~catalog.error
              /\ ~exists(fs.svd) => OfType("svd") = {}
              /\ ~exists(fs.animatediff) => OfType("animatediff") = {}
              /\ ~exists(fs.realistic_vision) =>
                    {e \in catalog.models : e.dir = "realistic-vision"} = {}
              /\ is_dir(fs.svd) => OfType("svd") # {}
              /\ is_dir(fs.animatediff) =>
                    /\ \A st \in fs.rv_files : \E e \in catalog.models :
                          e.name = ModelName("animatediff", st)
                    /\ \A d \in CustomDirs : \A st \in fs.custom[d] :
                          \E e \in catalog.models :
                              e.name = ModelName("custom", st)

\* A scan that met svd-xt and a subdirectory with weights files but neither
\* animatediff nor realistic-vision, and left the svd-xt entry alone.
C16_Witness ==
    /\ catalog.scanned
    /\ is_dir(fs.root)
    /\ is_dir(fs.svd)
    /\ ~exists(fs.animatediff) /\ ~exists(fs.realistic_vision)
    /\ fs.custom["c1"] # {}
    /\ Cardinality(catalog.models) = 1

\* The weights files of realistic-vision and of the other subdirectories, as
\* pairs of directory and stem.
WeightsFiles ==
    {<<"realistic-vision", st>> : st \in fs.rv_files} \cup
    {x \in CustomDirs \X Stems : x[2] \in fs.custom[x[1]]}

\* C30: after a scan of a root whose animatediff directory is present, every
\* weights file of realistic-vision and of the other subdirectories has its
\* own entry: the animatediff-kind entries are as many as the files, and
\* each file is the path of one of them.
C30_OneEntryPerWeightsFile ==
    (catalog.scanned /\ is_dir(fs.root) /\ is_dir(fs.animatediff)) =>
        /\ Cardinality(OfType("animatediff")) = Cardinality(WeightsFiles)
        /\ \A x \in WeightsFiles :
              \E e \in OfType("animatediff") :
                  e.dir = x[1] /\ e.name.stem = x[2]

(***************************************************************************)
(* SVDPipeline.generate / AnimateDiffPipeline.generate: the generate       *)
(* specification.  One generate call on a pipeline object, against the     *)
(* free memory of the device and the outcome of the inference call.        *)
(***************************************************************************)

GenKinds == {"svd", "animatediff"}

\* width, height, num_frames and decode_chunk_size of a generate call.
GenArgs ==
    [width : {512, 1024}, height : {512, 576}, num_frames : {16, 25, 100},
     decode_chunk_size : {2, 4, 8}]

\* What self.pipe(...) does: returns frames, raises
\* torch.cuda.OutOfMemoryError, or raises another exception.
InferenceOutcomes == {"frames", "OutOfMemoryError", "Exception"}

\* params.get('decodeChunkSize', 4)
DefaultChunkSize == 4

\* Mutation of PreCheckParams: the pre-check estimates the defaults of
\* estimate_vram_usage instead of the call's width, height and num_frames.
PreCheckParamsDefaults(kind, a) ==
    [pipeline |-> kind, width |-> 512, height |-> 512, numFrames |-> 25,
     decodeChunkSize |-> DefaultChunkSize]

\* The params dictionary of the pre-inference check.  AnimateDiff's has no
\* decodeChunkSize, for which estimate_vram_usage takes its default.
PreCheckParams(kind, a) ==
    [pipeline        |-> kind,
     width           |-> a.width,
     height          |-> a.height,
     numFrames       |-> a.num_frames,
     decodeChunkSize |-> IF kind = "svd" THEN a.decode_chunk_size
                         ELSE DefaultChunkSize]

\* Mutation of InferenceError: one error kind for every inference failure.
InferenceErrorUniform(infer) == "RuntimeError"

\* The error generate raises for what the inference call raised.
InferenceError(infer) ==
    IF infer = "OutOfMemoryError" THEN "VRAMError" ELSE "RuntimeError"

GenResult(result, events, estimated, available) ==
    [result |-> result, events |-> events, estimated |-> estimated,
     available |-> available]

\* generate(...) on a pipeline of the kind: what it returns or raises, the
\* steps it took, and the two values its pre-check compared.
generate(kind, is_loaded, prompt_valid, image_ok, a, infer) ==
    LET estimated_vram == estimate_vram_usage(PreCheckParams(kind, a))
        available_vram == get_available_vram
        R(result, events) ==
            GenResult(result, events, estimated_vram, available_vram)
    IN  IF ~is_loaded THEN GenResult("RuntimeError", <<>>, 0, 0)
        ELSE IF ~prompt_valid THEN GenResult("ValueError", <<>>, 0, 0)
        ELSE IF ~Fits(estimated_vram, available_vram)
        THEN R("VRAMError", <<"pre_check">>)
        ELSE IF ~image_ok
        THEN R("OSError", <<"pre_check", "load_image">>)
        ELSE IF infer = "frames"
        THEN R("frames",
               <<"pre_check", "load_image", "clear_cache", "inference">>)
        ELSE R(InferenceError(infer),
               <<"pre_check", "load_image", "clear_cache", "inference",
                 "clear_cache">>)

\* The record of a generate call: its inputs and its result.
GenCall(kind, is_loaded, a, infer, r) ==
    [called |-> TRUE, kind |-> kind, is_loaded |-> is_loaded, args |-> a,
     infer |-> infer, result |-> r.result, events |-> r.events,
     estimated |-> r.estimated, available |-> r.available]

InitGen ==
    /\ free \in FreeValues
    /\ DevIdle /\ MgrIdle
    /\ fs = NoFs /\ catalog = NoCatalog /\ gen = NoGen /\ svc = NoSvc

\* pipeline.generate(...)
Generate(kind, is_loaded, prompt_valid, image_ok, a, infer) ==
    /\ ~gen.called
    /\ gen' = GenCall(kind, is_loaded, a, infer,
                      generate(kind, is_loaded, prompt_valid, image_ok, a,
                               infer))
    /\ UNCHANGED <<free, optPc, params, outcome, mgrVars, devVars, catVars,
                   svc>>

GenNext ==
    \E kind \in GenKinds, is_loaded \in BOOLEAN, prompt_valid \in BOOLEAN,
       image_ok \in BOOLEAN, a \in GenArgs, infer \in InferenceOutcomes :
        Generate(kind, is_loaded, prompt_valid, image_ok, a, infer)

SpecGen == InitGen /\ [][GenNext]_vars

\* The positions of the inference call among the steps of the generate call.
InferenceSteps == {i \in DOMAIN gen.events : gen.events[i] = "inference"}

\* C17: when the inference call raises the out-of-memory signal, generate
\* calls clear_cache after it and raises VRAMError; when it raises anything
\* else generate raises RuntimeError, a different error; a generate call
\* invokes inference at most once.
C17_OutOfMemoryIsVRAMError ==
    gen.called =>
        /\ Cardinality(InferenceSteps) <= 1
        /\ \A i \in InferenceSteps :
              /\ gen.infer = "OutOfMemoryError" =>
                    /\ gen.result = "VRAMError"
                    /\ Len(gen.events) = i + 1
                    /\ gen.events[i + 1] = "clear_cache"
              /\ gen.infer = "Exception" =>
                    gen.result = "RuntimeError"
              /\ gen.infer = "frames" => gen.result = "frames"

\* Inference was invoked and raised the out-of-memory signal.
C17_Witness ==
    /\ gen.called
    /\ gen.infer = "OutOfMemoryError"
    /\ InferenceSteps # {}
    /\ gen.result = "VRAMError"

\* The estimate of the width, height and num_frames of the generate call,
\* with the call's decode_chunk_size for svd and with the estimator's
\* default for animatediff, whose generate has no such parameter.
CallEstimate ==
    estimate_vram_usage(
        [pipeline        |-> gen.kind,
         width           |-> gen.args.width,
         height          |-> gen.args.height,
         numFrames       |-> gen.args.num_frames,
         decodeChunkSize |-> IF gen.kind = "svd"
                             THEN gen.args.decode_chunk_size ELSE 4])

\* The pipeline is not loaded or the call's estimate exceeds the free memory.
NotAdmissible == ~gen.is_loaded \/ 64 * CallEstimate > 100 * free

SvcFreeValues == {320, 419, 480, 496, 768}

\* num_frames, width, height and decode_chunk_size as the caller passes
\* them; 0 stands for a width, height or num_frames that is not passed (or
\* passed as 0, which "or" treats alike).  decode_chunk_size travels in
\* **kwargs: <<>> when the caller does not pass it, <<v>> when it does.
SvcArgs ==
    [width : {0, 1024}, height : {0}, num_frames : {0, 100},
     decode_chunk_size : {<<>>, <<0>>, <<8>>}]

\* What load_pipeline meets: a cached pipeline, a cached pipeline that was
\* unloaded since, or a cache miss with one of the load environments.
SvcLoadEnvs == {"hit", "hit_unloaded"} \cup LoadEnvs

\* get_default_params() of the two pipelines.
get_default_params(kind) ==
    IF kind = "svd"
    THEN [width |-> 1024, height |-> 576, num_frames |-> 25]
    ELSE [width |-> 512, height |-> 512, num_frames |-> 24]

\* "x or default"
OrDefault(x, default) == IF x # 0 THEN x ELSE default

\* gen_params.get(key, default) for a key that comes from **kwargs
GetOrDefault(kwarg, default) == IF kwarg # <<>> THEN kwarg[1] ELSE default

\* The least available_gb load_model accepts, in hundredths of a GB.
MinLoadVram == [svd |-> 600, animatediff |-> 500]

\* gen_params after the merge with the defaults.
MergedParams(kind, a) ==
    LET defaults == get_default_params(kind)
    IN  [width     |-> OrDefault(a.width, defaults.width),
         height    |-> OrDefault(a.height, defaults.height),
         num_frames |-> OrDefault(a.num_frames, defaults.num_frames),
         decode_chunk_size |-> a.decode_chunk_size]

\* vram_params of generate_video.
VramParams(kind, g) ==
    [pipeline        |-> kind,
     width           |-> g.width,
     height          |-> g.height,
     numFrames       |-> g.num_frames,
     decodeChunkSize |-> GetOrDefault(g.decode_chunk_size,
                                      DefaultChunkSize)]

\* The error message prefix generate_video answers with for an exception.
ErrorPrefix(exception) ==
    CASE exception = "VRAMError"     -> "VRAM Error"
      [] exception = "PipelineError" -> "Pipeline Error"
      [] OTHER                       -> "Unexpected Error"

\* GenerationResult(success=False, error=...)
Failed(error) ==
    [svc EXCEPT !.pc = "done", !.success = FALSE, !.error = error]

\* Mutation of Caught: generate_video without its last except clause; an
\* exception that is neither a VRAMError nor a PipelineError leaves the call.
CaughtTypedOnly(s, exception) ==
    IF exception \in {"VRAMError", "PipelineError"}
    THEN [s EXCEPT !.pc = "done", !.success = FALSE,
                   !.error = ErrorPrefix(exception)]
    ELSE [s EXCEPT !.pc = "raised"]

\* An exception raised in the body of generate_video, in the state s of the
\* call: one of the three except clauses answers with a failed result.
Caught(s, exception) ==
    [s EXCEPT !.pc = "done", !.success = FALSE,
              !.error = ErrorPrefix(exception)]

InitSvc ==
    /\ free \in SvcFreeValues
    /\ DevIdle /\ MgrIdle
    /\ fs = NoFs /\ catalog = NoCatalog /\ gen = NoGen /\ svc = NoSvc

\* generate_video up to the return of load_pipeline.  A load on a cache miss
\* checks the available memory and then takes memory for the weights.
SvcLoad(image_exists, prompt_ok, model_name, a, env) ==
    /\ svc.pc = "idle"
    /\ IF ~image_exists
       THEN svc' = Failed("Image file not found") /\ free' = free
       ELSE IF ~prompt_ok
       THEN svc' = Failed("Prompt is required") /\ free' = free
       ELSE IF model_name \notin DOMAIN available_models
       THEN svc' = Caught(svc, not_found_error) /\ free' = free
       ELSE LET kind == available_models[model_name]
                started == [svc EXCEPT !.model_name = model_name,
                                       !.kind = kind, !.args = a,
                                       !.free_at_start = free]
            IN  IF env \in {"hit", "hit_unloaded"}
                THEN /\ svc' = [started EXCEPT !.pc = "loaded",
                                               !.is_loaded = (env = "hit")]
                     /\ free' = free
                ELSE /\ \/ env = "no_path"
                        \/ env = "low_vram" <=>
                             get_vram_stats.available_gb < MinLoadVram[kind]
                     /\ IF load_model_result(env) = "ok"
                        THEN /\ svc' = [started EXCEPT !.pc = "loaded",
                                                       !.is_loaded = TRUE]
                             /\ free' \in {f \in SvcFreeValues : f <= free}
                        ELSE /\ svc' = Caught(started,
                                                load_model_result(env))
                             /\ free' = free
    /\ UNCHANGED <<optPc, params, outcome, mgrVars, devVars, catVars, gen>>

\* pipeline.optimize_params_for_vram(vram_params).  The estimate is taken
\* before the available memory is read; when it raises, the memory is not
\* read.
SvcOptimize ==
    /\ svc.pc = "loaded"
    /\ LET vram_params == VramParams(svc.kind,
                                     MergedParams(svc.kind, svc.args))
       IN  /\ params' = vram_params
           /\ IF estimate_raises(vram_params)
              THEN /\ outcome' = NoOutcome
                   /\ optPc' = "raised"
                   /\ svc' = Caught(svc, "ZeroDivisionError")
              ELSE /\ outcome' = optimize_params(vram_params,
                                                 get_available_vram)
                   /\ optPc' = "done"
                   /\ svc' = [svc EXCEPT !.pc = "optimized",
                                         !.free_at_opt = free]
    /\ UNCHANGED <<free, mgrVars, devVars, catVars, gen>>

\* pipeline.generate(**gen_params) with the optimized values.
SvcGenerate(prompt_valid, image_ok, infer) ==
    /\ svc.pc = "optimized"
    /\ LET a == [width             |-> outcome.optimized.width,
                 height            |-> outcome.optimized.height,
                 num_frames        |-> outcome.optimized.numFrames,
                 decode_chunk_size |-> outcome.optimized.decodeChunkSize]
           r == generate(svc.kind, svc.is_loaded, prompt_valid, image_ok, a,
                         infer)
       IN  /\ gen' = GenCall(svc.kind, svc.is_loaded, a, infer, r)
           /\ svc' = IF r.result = "frames"
                     THEN [svc EXCEPT !.pc = "generated",
                                      !.free_at_gen = free]
                     ELSE Caught([svc EXCEPT !.free_at_gen = free],
                                 r.result)
    /\ UNCHANGED <<free, optPc, params, outcome, mgrVars, devVars, catVars>>

\* _export_video and the GenerationResult.
SvcExport(export_ok) ==
    /\ svc.pc = "generated"
    /\ svc' = IF export_ok
              THEN [svc EXCEPT !.pc = "done", !.exported = TRUE,
                               !.success = TRUE]
              ELSE Caught(svc, "Exception")
    /\ UNCHANGED <<free, optPc, params, outcome, mgrVars, devVars, catVars,
                   gen>>

\* Another process takes or releases device memory between two steps.
DeviceChange ==
    /\ svc.pc \in {"loaded", "optimized"}
    /\ free' \in SvcFreeValues \ {free}
    /\ UNCHANGED <<optPc, params, outcome, mgrVars, devVars, catVars, gen,
                   svc>>

SvcNext ==
    \/ \E image_exists \in BOOLEAN, prompt_ok \in BOOLEAN,
          model_name \in ModelNames, a \in SvcArgs, env \in SvcLoadEnvs :
           SvcLoad(image_exists, prompt_ok, model_name, a, env)
    \/ SvcOptimize
    \/ \E prompt_valid \in BOOLEAN, image_ok \in BOOLEAN,
          infer \in InferenceOutcomes :
           SvcGenerate(prompt_valid, image_ok, infer)
    \/ \E export_ok \in BOOLEAN : SvcExport(export_ok)
    \/ DeviceChange

SpecSvc == InitSvc /\ [][SvcNext]_vars

\* The pre-inference check of the request's generate call was reached.
PreChecked == gen.called /\ gen.events # <<>>

\* C18: the available memory that optimize_params compares with is the free
\* memory of the device when optimize_params runs, after the load of the
\* request, and the available memory of the pre-inference check is the free
\* memory of the device when generate runs; no decision uses a value read
\* earlier.
C18_BudgetRequeried ==
    /\ svc.free_at_opt # -1 => outcome.available = svc.free_at_opt
    /\ (svc.free_at_gen # -1 /\ PreChecked) =>
          gen.available = svc.free_at_gen

\* The free memory differed at the start of the request, at optimize_params
\* and at the pre-inference check, and each decision saw its own value.
C18_Witness ==
    /\ PreChecked
    /\ svc.free_at_start # svc.free_at_opt
    /\ svc.free_at_opt # svc.free_at_gen
    /\ svc.free_at_start # svc.free_at_gen
    /\ outcome.available # gen.available

\* C22: generate_video always answers with a result value.  No exception
\* leaves the call: a failure in input validation, load_pipeline,
\* optimization, generate or export ends the call with success = false and
\* an error message.  success = true is answered only after generate
\* returned frames and the export of those frames went through.
C22_AlwaysAnswers ==
    /\ svc.pc # "raised"
    /\ svc.pc = "done" =>
          /\ svc.success =>
                gen.called /\ gen.result = "frames" /\ svc.exported
          /\ ~svc.success => svc.error # None /\ ~svc.exported

\* The optimization of a request raised (a decode_chunk_size of 0) after the
\* pipeline was loaded, and the call answered with a failed result.
C22_Witness ==
    /\ svc.pc = "done"
    /\ optPc = "raised"
    /\ svc.kind # None
    /\ ~svc.success
    /\ svc.error = "Unexpected Error"

\* The pre-inference check of the request's generate call raised VRAMError.
PreCheckRejected ==
    gen.called /\ gen.events = <<"pre_check">> /\ gen.result = "VRAMError"

\* The request reached generate with the free memory optimize_params saw,
\* and the estimate of the parameters optimize_params returned fits it.
OptimizedFitsUnchangedBudget ==
    /\ svc.free_at_gen # -1
    /\ svc.free_at_opt = svc.free_at_gen
    /\ Fits(FinalEstimate, outcome.available)

\* C29: within one generate_video call, when the parameters optimize_params
\* returned fit the available VRAM and the available VRAM is the same at the
\* pre-inference check, the check of the pipeline's generate does not raise
\* VRAMError, for both pipeline kinds and every decode_chunk_size passed.
C29_PreflightAndGenerateAgree ==
    OptimizedFitsUnchangedBudget => ~PreCheckRejected

====
